---- MODULE Spec2Model ----
(***************************************************************************)
(* Land-cover dashboards of dash_map: the Maranhao dashboard (novo.py) and *)
(* the national dashboard (mapbiomas_globe.py).  Both remap the raw        *)
(* MapBiomas codes of a yearly band to a few semantic classes and sum the  *)
(* pixel area per class inside a region of interest.                       *)
(*                                                                         *)
(* A band is a sequence of raw codes, one per pixel of the grid; the grid  *)
(* gives every pixel its ground area in m2 (ee.Image.pixelArea) and a      *)
(* geometry is the set of pixels whose centre lies inside the polygon.     *)
(* Areas of the result rows are held in hundredths of km2, which is what   *)
(* round(area_km2, 2) keeps.                                               *)
(***************************************************************************)
EXTENDS Integers, Sequences, FiniteSets, TLC

VARIABLES
    app,            \* which script runs: "novo" or "globe"
    pc,             \* position of the script
    idx,            \* index of the running for-loop over selected_years
    selected_years, \* st.multiselect: distinct years in the order selected
    pixel_area,     \* the grid: pixel -> ground area in m2
    geometry,       \* the region of interest, or None
    messages,       \* st.error / st.warning / st.success calls so far
    failing,        \* years found to have no band / whose getInfo raised
    available,      \* years found in mapbiomas_image.bandNames()
    image,          \* fetched years -> raw band of mapbiomas_image
    clipped,        \* novo.py: remapped_image was clipped to the geometry
    remapped_image, \* evaluated years -> remapped (and clipped) band
    layers,         \* m.addLayer calls for classification layers
    areas_list,     \* evaluated years -> per-class sums in m2 (reduceRegion)
    stats_data,     \* novo.py: rows collected by the statistics loop
    df_agg,         \* novo.py: the aggregated table handed to the charts
    results,        \* mapbiomas_globe.py: rows collected by the area loop
    df,             \* mapbiomas_globe.py: the table shown by st.dataframe
    codes,          \* reclassify_bands: the argument codes
    new_classes,    \* reclassify_bands: the argument new_classes
    raw_image,      \* reclassify_bands: the argument image, year -> raw band
    remapped_bands, \* reclassify_bands: the bands built, not yet evaluated
    reclassified,   \* year -> the evaluated band of the returned image
    reclassified_again, \* the same after reclassify_bands ran on its result
    scheme_pc,      \* position of a call of reclassify_bands
    scheme_errors,  \* what the call and the evaluation reported
    df_water,       \* rio.py: the yearly series, rows of Ano and the metrics
    analysis_type,  \* rio.py: st.radio "Tipo de visualizacao"
    show_trend,     \* rio.py: st.checkbox "Mostrar tendencia"
    show_stats,     \* rio.py: st.checkbox "Mostrar estatisticas detalhadas"
    water_pc,       \* rio.py: position of the script
    fit,            \* rio.py: slope, intercept, trend of the closed form
    regress,        \* rio.py: what stats.linregress returned
    describe        \* rio.py: the descriptive statistics written

\* the variables of a call of reclassify_bands, and of rio.py
scheme_vars == <<codes, new_classes, raw_image, remapped_bands, reclassified,
                 reclassified_again, scheme_pc, scheme_errors>>
water_vars == <<df_water, analysis_type, show_trend, show_stats, water_pc, fit,
                regress, describe>>

vars == <<app, pc, idx, selected_years, pixel_area, geometry, messages, failing,
          available,
          image, clipped, remapped_image, layers, areas_list, stats_data, df_agg,
          results, df, scheme_vars, water_vars>>

---------------------------------------------------------------------------
(* Bounds of the model *)

\* most years a request selects
MaxSelected == 2
\* largest raw code drawn for the single-pixel reclassification runs
MaxRawCode == 63
\* longest list of codes or classes handed to reclassify_bands
MaxSchemeLen == 2
\* most years of a series of freely drawn values
MaxPoints == 3

\* sample of the years 1985..2023 offered by the multiselect
Years == {2020, 2021, 2022}
\* raw codes drawn for the pixels: 1 and 27 are listed by both schemes,
\* 13 is listed by neither
RawCodes == {1, 13, 27}
\* ground areas (m2) drawn for a pixel: a 30 m pixel, and a block of pixels
\* large enough for the rounding to two decimals of a km2 to matter
PixelAreas == {900, 16000}
\* the small grids: two pixels, of different or of the same area
SmallGrids == {<<900, 16000>>, <<16000, 16000>>}

---------------------------------------------------------------------------
(* Configuration of the two dashboards *)

\* a scheme in which raw code 3 is listed twice, once for class 2
CLASS_CONFIG_duplicate ==
    [codes |-> <<0, 1, 3, 3>>,
     new_classes |-> <<0, 1, 1, 2>>,
     palette |-> <<"#ffffff", "#1f8d49", "#d6bc74">>,
     names |-> [c \in 0..2 |-> "Classe"]]

CLASS_CONFIG ==
    [codes |-> <<0, 1, 3, 4, 5, 6, 49, 10, 11, 12, 32, 29, 50, 14, 15, 18, 19,
                 39, 20, 40, 62, 41, 36, 46, 47, 35, 48, 9, 21, 22, 23, 24, 30,
                 25, 26, 33, 31, 27>>,
     new_classes |-> <<0, 1, 1, 1, 1, 1, 1, 2, 2, 2, 2, 2, 2, 3, 3, 3, 3, 3, 3,
                       3, 3, 3, 3, 3, 3, 3, 3, 3, 4, 4, 4, 4, 4, 4, 5, 5, 5,
                       6>>,
     palette |-> <<"#ffffff", "#1f8d49", "#7dc975", "#04381d", "#007785",
                   "#02d659", "#d6bc74", "#519799", "#fc8114", "#ffaa5f",
                   "#ad5100", "#ffefc3", "#edde8e", "#E974ED", "#C27BA0",
                   "#db7093", "#c71585", "#ff69b4", "#f54ca9", "#d082de",
                   "#d68fe2", "#9932cc", "#9065d0", "#e6ccff", "#7a5900",
                   "#d4271e", "#ffa07a", "#9c0027", "#db4d4f", "#2532e4",
                   "#091077">>,
     names |-> [c \in 0..6 |->
                  CASE c = 0 -> "Nao Observado"
                    [] c = 1 -> "Floresta"
                    [] c = 2 -> "Vegetacao Herbacea"
                    [] c = 3 -> "Agropecuaria"
                    [] c = 4 -> "Area nao Vegetada"
                    [] c = 5 -> "Corpo D'agua"
                    [] c = 6 -> "Nao Observado"]]

CLASSES ==
    [c \in 1..6 |->
       CASE c = 1 -> "Formacao Florestal"
         [] c = 2 -> "Formacao Natural nao Florestal"
         [] c = 3 -> "Agropecuaria"
         [] c = 4 -> "Area nao Vegetada"
         [] c = 5 -> "Corpo D'agua"
         [] c = 6 -> "Nao Observado"]

\* a palette that lacks the colour of the last class
PALETTE_short == <<"#006400", "#B8AF4F", "#FFD966", "#E974ED", "#0000FF">>

PALETTE == <<"#006400", "#B8AF4F", "#FFD966", "#E974ED", "#0000FF", "#FFFFFF">>

\* The groups of the dict literal CLASS_MAPPING, in the order written:
\* <<class, codes of the class>>.
CLASS_MAPPING_groups ==
    << <<1, <<1, 3, 4, 5, 6, 49>> >>,
       <<2, <<10, 11, 12, 32, 29, 50>> >>,
       <<3, <<14, 15, 18, 19, 39, 20, 40, 62, 41, 36, 46, 47, 35, 48, 9, 21>> >>,
       <<4, <<22, 23, 24, 30, 25>> >>,
       <<5, <<26, 33, 31>> >>,
       <<6, <<27>> >> >>

\* A Python dict as the sequence of its <<key, value>> items in insertion
\* order: writing an existing key keeps its place and replaces its value.
DictHas(d, k) == \E j \in 1..Len(d) : d[j][1] = k

DictSet(d, k, v) ==
    IF DictHas(d, k)
    THEN [j \in 1..Len(d) |-> IF d[j][1] = k THEN <<k, v>> ELSE d[j]]
    ELSE Append(d, <<k, v>>)

RECURSIVE DictSetAll(_, _, _)
\* {code: v for code in codes} merged into d
DictSetAll(d, ks, v) ==
    IF ks = <<>> THEN d
    ELSE DictSetAll(DictSet(d, Head(ks), v), Tail(ks), v)

RECURSIVE DictOfGroups(_, _)
DictOfGroups(d, groups) ==
    IF groups = <<>> THEN d
    ELSE DictOfGroups(DictSetAll(d, Head(groups)[2], Head(groups)[1]),
                      Tail(groups))

CLASS_MAPPING == DictOfGroups(<<>>, CLASS_MAPPING_groups)

\* list(d.keys()) and list(d.values())
DictKeys(d) == [j \in 1..Len(d) |-> d[j][1]]
DictValues(d) == [j \in 1..Len(d) |-> d[j][2]]

\* The scheme each script hands to remap: the list of raw codes and the
\* list of new classes.
SchemeCodes(a) ==
    IF a = "novo" THEN CLASS_CONFIG.codes ELSE DictKeys(CLASS_MAPPING)

SchemeClasses(a) ==
    IF a = "novo" THEN CLASS_CONFIG.new_classes ELSE DictValues(CLASS_MAPPING)

\* The class indices the area loop of each script runs over:
\* range(0, 7) in novo.py, the keys of CLASSES in mapbiomas_globe.py.
LoopClasses(a) == IF a = "novo" THEN 0..6 ELSE DOMAIN CLASSES

\* The display name a row gets.
ClassName(a, c) ==
    IF a = "novo"
    THEN IF c \in DOMAIN CLASS_CONFIG.names
         THEN CLASS_CONFIG.names[c] ELSE "Classe ?"
    ELSE CLASSES[c]

\* Visualisation parameters of a classification layer.
VisMin(a) == IF a = "novo" THEN 0 ELSE 1
VisMax(a) == 6
VisPalette(a) == IF a = "novo" THEN CLASS_CONFIG.palette ELSE PALETTE

---------------------------------------------------------------------------
(* Earth Engine operations used by the scripts *)

\* value of a masked pixel (no data); class indices are >= 0
Masked == 0 - 1

\* remap that passes an unlisted value through
RemapWithDefault(from, to, v) ==
    IF \E k \in 1..Len(from) : from[k] = v
    THEN to[CHOOSE k \in 1..Len(from) :
              from[k] = v /\ \A j \in 1..(k - 1) : from[j] # v]
    ELSE v

\* remap that reads the class one position too far
RemapShifted(from, to, v) ==
    IF \E k \in 1..Len(from) : from[k] = v
    THEN to[((CHOOSE k \in 1..Len(from) :
                from[k] = v /\ \A j \in 1..(k - 1) : from[j] # v)
             % Len(to)) + 1]
    ELSE Masked

\* ee.Image.remap(from, to) without defaultValue: a value found in `from`
\* becomes the value at the same position of `to`, any other value is masked.
Remap(from, to, v) ==
    IF \E k \in 1..Len(from) : from[k] = v
    THEN to[CHOOSE k \in 1..Len(from) :
              from[k] = v /\ \A j \in 1..(k - 1) : from[j] # v]
    ELSE Masked

\* band.remap(codes, new_classes) on every pixel; a masked pixel stays masked
RemapBand(from, to, band) ==
    [p \in 1..Len(band) |->
       IF band[p] = Masked THEN Masked ELSE Remap(from, to, band[p])]

\* image.clip(geometry): pixels outside the geometry are masked

Clip(band, inside) ==
    [p \in 1..Len(band) |-> IF p \in inside THEN band[p] ELSE Masked]

\* eq that is 1 on every unmasked pixel
EqAny(v, i) == IF v = Masked THEN Masked ELSE 1

\* band.eq(i): 1 where the value is i, 0 elsewhere, masked where masked

Eq(v, i) == IF v = Masked THEN Masked ELSE IF v = i THEN 1 ELSE 0

RECURSIVE ReduceSumFrom(_, _, _, _, _)
\* sum over the pixels p..Len(band) of band.eq(i) * pixelArea, restricted to
\* the pixels of `region`; masked pixels are left out of the sum
ReduceSumFrom(band, area, region, i, p) ==
    IF p > Len(band) THEN 0
    ELSE (IF p \in region /\ Eq(band[p], i) # Masked
          THEN Eq(band[p], i) * area[p] ELSE 0)
         + ReduceSumFrom(band, area, region, i, p + 1)

\* band.eq(i).multiply(ee.Image.pixelArea()).reduceRegion(ee.Reducer.sum(),
\* geometry): the sum in m2

ReduceSum(band, area, region, i) == ReduceSumFrom(band, area, region, i, 1)

\* rounding that truncates
Round2Floor(area_m2) == area_m2 \div 10000

\* round(area_m2 / 1e6, 2) in hundredths of km2.  Python rounds the double
\* nearest to the quotient; an exact tie (area_m2 = 5000 mod 10000) goes to
\* the even neighbour here.

Round2(area_m2) ==
    LET q == area_m2 \div 10000
        r == area_m2 % 10000
    IN  IF r < 5000 THEN q
        ELSE IF r > 5000 THEN q + 1
        ELSE IF q % 2 = 0 THEN q ELSE q + 1

---------------------------------------------------------------------------
(* State of a run *)

None == [defined |-> FALSE, inside |-> {}]
Geom(S) == [defined |-> TRUE, inside |-> S]

Pixels == 1..Len(pixel_area)

EmptyMap == [y \in {} |-> <<>>]

\* selections of the multiselect: distinct years, in the order picked
Selections ==
    {s \in UNION {[1..n -> Years] : n \in 0..MaxSelected} :
        \A j, k \in 1..Len(s) : j # k => s[j] # s[k]}

\* the grid and band of the 10 x 10 scenario: 30 m pixels of 900 m2, every
\* pixel of raw code 1
ScenarioGrid == [p \in 1..(10 * 10) |-> 900]
ScenarioBand == [p \in 1..(10 * 10) |-> 1]

SeqRange(s) == {s[j] : j \in 1..Len(s)}

\* the pixel sets a polygon can select: any set of pixels of a small grid;
\* nothing or everything of the scenario grid
Regions ==
    IF Len(pixel_area) <= 2 THEN SUBSET Pixels ELSE {{}, Pixels}

\* What fetching the band of year y can give: a band of the grid's shape,
\* or a failure (None below); a year fetched before gives the same again.
NoBand == <<>>
FetchOutcomes(y) ==
    IF y \in failing THEN {NoBand}
    ELSE IF y \in DOMAIN image THEN {image[y]}
    ELSE IF y \in available THEN [Pixels -> RawCodes]
    ELSE {NoBand} \cup [Pixels -> RawCodes]

\* Whether band_name is in mapbiomas_image.bandNames().getInfo()
BandNamesOutcomes(y) ==
    IF y \in failing THEN {FALSE}
    ELSE IF y \in available \cup DOMAIN image THEN {TRUE}
    ELSE BOOLEAN

StartState ==
    /\ pc = "geometry"
    /\ idx = 1
    /\ geometry = None
    /\ messages = {}
    /\ failing = {}
    /\ available = {}
    /\ clipped = FALSE
    /\ remapped_image = EmptyMap
    /\ layers = <<>>
    /\ areas_list = EmptyMap
    /\ stats_data = <<>>
    /\ df_agg = {}
    /\ results = <<>>
    /\ df = <<>>

\* no call of reclassify_bands with other arguments is under way
SchemeIdle ==
    /\ codes = <<>>
    /\ new_classes = <<>>
    /\ raw_image = EmptyMap
    /\ remapped_bands = <<>>
    /\ reclassified = EmptyMap
    /\ reclassified_again = EmptyMap
    /\ scheme_pc = "idle"
    /\ scheme_errors = {}

\* rio.py does not run
WaterIdle ==
    /\ df_water = <<>>
    /\ analysis_type = "Area Absoluta"
    /\ show_trend = FALSE
    /\ show_stats = FALSE
    /\ water_pc = "idle"
    /\ fit = [set |-> FALSE]
    /\ regress = [set |-> FALSE]
    /\ describe = [set |-> FALSE]

\* neither land-cover dashboard runs
DashboardIdle ==
    /\ app = "none"
    /\ selected_years = <<>>
    /\ pixel_area = <<>>
    /\ image = EmptyMap
    /\ StartState

Init ==
    /\ SchemeIdle
    /\ WaterIdle
    /\ app \in {"novo", "globe"}
    /\ selected_years \in Selections
    /\ \/ /\ pixel_area \in SmallGrids
          /\ image = EmptyMap
       \/ /\ pixel_area = ScenarioGrid
          /\ image = [y \in Years |-> ScenarioBand]
    /\ StartState

---------------------------------------------------------------------------
(* novo.py: the Maranhao dashboard *)

\* remapped_image.select(f"classification_{year}"): the band of reclassify_bands,
\* clipped when a geometry was defined
NovoBand(band, geom) ==
    LET r == RemapBand(CLASS_CONFIG.codes, CLASS_CONFIG.new_classes, band)
    IN  IF geom.defined THEN Clip(r, geom.inside) ELSE r

\* areas.getInfo()['sum']: the seven sums of class_0 .. class_6, in m2
NovoAreas(band, area, geom) ==
    [j \in 1..7 |-> ReduceSum(band, area, geom.inside, j - 1)]

\* rows only for the classes that have some area
NovoRowsNonZero(year, sums) ==
    SelectSeq([j \in 1..7 |->
                 [Ano |-> year,
                  Classe |-> j - 1,
                  Nome_da_Classe |-> ClassName("novo", j - 1),
                  Area_km2 |-> Round2(IF j - 1 < Len(sums) THEN sums[j] ELSE 0)]],
              LAMBDA r : r.Area_km2 > 0)

\* the rows the inner loop appends for one year
NovoRows(year, sums) ==
    [j \in 1..7 |->
       [Ano |-> year,
        Classe |-> j - 1,
        Nome_da_Classe |-> ClassName("novo", j - 1),
        Area_km2 |-> Round2(IF j - 1 < Len(sums) THEN sums[j] ELSE 0)]]

RECURSIVE SumAreaOf(_, _, _)
\* the sum of Area_km2 over the rows of one (Ano, Nome da Classe) group
SumAreaOf(rows, year, name) ==
    IF rows = <<>> THEN 0
    ELSE (IF Head(rows).Ano = year /\ Head(rows).Nome_da_Classe = name
          THEN Head(rows).Area_km2 ELSE 0)
         + SumAreaOf(Tail(rows), year, name)

\* groupby that keeps the first row of a group instead of summing
GroupByFirst(rows) ==
    {[Ano |-> rows[j].Ano, Nome_da_Classe |-> rows[j].Nome_da_Classe,
      Area_km2 |-> rows[j].Area_km2] :
        j \in {k \in 1..Len(rows) :
                 \A h \in 1..(k - 1) :
                    rows[h].Ano # rows[k].Ano
                    \/ rows[h].Nome_da_Classe # rows[k].Nome_da_Classe}}

\* df.groupby(['Ano', 'Nome da Classe'])['Area (km2)'].sum().reset_index():
\* one row per group; the order of the rows is left out
GroupBy(rows) ==
    {[Ano |-> rows[j].Ano, Nome_da_Classe |-> rows[j].Nome_da_Classe,
      Area_km2 |-> SumAreaOf(rows, rows[j].Ano, rows[j].Nome_da_Classe)] :
        j \in 1..Len(rows)}

\* lines 147-186: the study area from the uploaded shapefile, the pasted
\* GeoJSON or the selected municipality
NovoGeometry ==
    /\ app = "novo" /\ pc = "geometry"
    /\ \E uploaded \in {"none", "ok", "unreadable", "noshp"},
          geometry_input \in {"empty", "ok", "malformed"},
          municipio \in BOOLEAN,
          region \in Regions :
          IF uploaded # "none"
          THEN CASE uploaded = "ok" ->
                      /\ geometry' = Geom(region)
                      /\ messages' = messages \cup {<<"success", "geometry", 0>>}
                 [] uploaded = "noshp" ->
                      /\ geometry' = None
                      /\ messages' = messages \cup {<<"error", "noshp", 0>>}
                 [] OTHER ->
                      /\ geometry' = None
                      /\ messages' = messages \cup {<<"error", "shapefile", 0>>}
          ELSE IF geometry_input # "empty"
          THEN IF geometry_input = "ok"
               THEN /\ geometry' = Geom(region)
                    /\ messages' = messages \cup {<<"success", "geometry", 0>>}
               ELSE /\ geometry' = None
                    /\ messages' = messages \cup {<<"error", "geojson", 0>>}
          ELSE IF municipio
          THEN /\ geometry' = Geom(region)
               /\ messages' = messages \cup {<<"success", "geometry", 0>>}
          ELSE /\ geometry' = None
               /\ messages' = messages
    /\ pc' = "clip"
    /\ UNCHANGED <<scheme_vars, water_vars, app, idx, selected_years, pixel_area, failing, available, image, clipped,
                   remapped_image, layers, areas_list, stats_data, df_agg,
                   results, df>>

\* lines 189-196: the map, the study area layer and the clip of remapped_image
NovoClip ==
    /\ app = "novo" /\ pc = "clip"
    /\ clipped' = geometry.defined
    /\ pc' = "layers"
    /\ idx' = 1
    /\ UNCHANGED <<scheme_vars, water_vars, app, selected_years, pixel_area, geometry, messages, failing, available,
                   image, remapped_image, layers, areas_list, stats_data,
                   df_agg, results, df>>

\* lines 199-209: one pass of the loop that adds the layer of a selected year
NovoAddLayer ==
    /\ app = "novo" /\ pc = "layers"
    /\ idx <= Len(selected_years)
    /\ layers' = Append(layers,
                        [year |-> selected_years[idx], clipped |-> clipped,
                         min |-> VisMin("novo"), max |-> VisMax("novo")])
    /\ idx' = idx + 1
    /\ UNCHANGED <<scheme_vars, water_vars, app, pc, selected_years, pixel_area, geometry, messages,
                   failing, available, image, clipped, remapped_image, areas_list,
                   stats_data, df_agg, results, df>>

\* lines 211-217: the map is shown; the statistics section runs only with a
\* geometry and at least one selected year
NovoShowMap ==
    /\ app = "novo" /\ pc = "layers"
    /\ idx > Len(selected_years)
    /\ pc' = IF geometry.defined /\ selected_years # <<>> THEN "stats" ELSE "done"
    /\ idx' = 1
    /\ UNCHANGED <<scheme_vars, water_vars, app, selected_years, pixel_area, geometry, messages, failing, available,
                   image, clipped, remapped_image, layers, areas_list,
                   stats_data, df_agg, results, df>>

\* lines 219-257: one pass of the statistics loop; areas.getInfo() either
\* raises, which is reported for the year, or gives the seven sums
NovoStatsYear ==
    /\ app = "novo" /\ pc = "stats"
    /\ idx <= Len(selected_years)
    /\ LET year == selected_years[idx]
       IN  \E got \in FetchOutcomes(year) :
             IF got = NoBand
             THEN /\ failing' = failing \cup {year}
                  /\ messages' = messages \cup {<<"error", "year", year>>}
                  /\ UNCHANGED <<image, remapped_image, areas_list, stats_data>>
             ELSE LET band == NovoBand(got, IF clipped THEN geometry ELSE None)
                      sums == NovoAreas(band, pixel_area, geometry)
                  IN  /\ image' = (year :> got) @@ image
                      /\ remapped_image' = (year :> band) @@ remapped_image
                      /\ areas_list' = (year :> sums) @@ areas_list
                      /\ stats_data' = stats_data \o NovoRows(year, sums)
                      /\ UNCHANGED <<failing, messages>>
    /\ idx' = idx + 1
    /\ UNCHANGED <<scheme_vars, water_vars, app, pc, selected_years, pixel_area, geometry, available,
                   clipped, layers, df_agg, results, df>>

\* lines 259-266: without rows the script stops; otherwise the rows are
\* aggregated by year and class name
NovoAggregate ==
    /\ app = "novo" /\ pc = "stats"
    /\ idx > Len(selected_years)
    /\ IF stats_data = <<>>
       THEN /\ messages' = messages \cup {<<"warning", "nodata", 0>>}
            /\ pc' = "stopped"
            /\ UNCHANGED df_agg
       ELSE /\ df_agg' = GroupBy(stats_data)
            /\ pc' = "done"
            /\ UNCHANGED messages
    /\ UNCHANGED <<scheme_vars, water_vars, app, idx, selected_years, pixel_area, geometry, failing, available, image,
                   clipped, remapped_image, layers, areas_list, stats_data,
                   results, df>>

---------------------------------------------------------------------------
(* mapbiomas_globe.py: the national dashboard *)

\* band.remap(list(CLASS_MAPPING.keys()), list(CLASS_MAPPING.values())),
\* clipped when a geometry is defined
GlobeBand(band, geom) ==
    LET r == RemapBand(DictKeys(CLASS_MAPPING), DictValues(CLASS_MAPPING), band)
    IN  IF geom.defined THEN Clip(r, geom.inside) ELSE r

\* reduceRegion(geometry=geometry): without a geometry the region is the
\* footprint of the image
GlobeRegion(band, geom) ==
    IF geom.defined THEN geom.inside ELSE 1..Len(band)

\* stats.get(band_name).getInfo() for class_id = 1 .. 6, in m2
GlobeAreas(band, area, geom) ==
    [c \in 1..Cardinality(DOMAIN CLASSES) |->
       ReduceSum(band, area, GlobeRegion(band, geom), c)]

\* the rows the inner loop appends for one year
GlobeRows(year, sums) ==
    [c \in 1..Len(sums) |->
       [Ano |-> year, Classe |-> CLASSES[c], Area_km2 |-> Round2(sums[c])]]

\* lines 104-126: the area of interest: the rectangle around Brazil, which
\* covers the whole band, or the pasted GeoJSON
GlobeGeometry ==
    /\ app = "globe" /\ pc = "geometry"
    /\ \E geometry_option \in {"Brasil Inteiro", "Personalizada"},
          geojson_input \in {"empty", "ok", "malformed"},
          region \in Regions :
          IF geometry_option = "Personalizada"
          THEN CASE geojson_input = "ok" ->
                      /\ geometry' = Geom(region)
                      /\ messages' = messages \cup {<<"success", "geometry", 0>>}
                 [] geojson_input = "malformed" ->
                      /\ geometry' = None
                      /\ messages' = messages \cup {<<"error", "geojson", 0>>}
                 [] OTHER ->
                      /\ geometry' = None
                      /\ messages' = messages
          ELSE /\ geometry' = Geom(Pixels)
               /\ messages' = messages
    /\ pc' = "map"
    /\ idx' = 1
    /\ UNCHANGED <<scheme_vars, water_vars, app, selected_years, pixel_area, failing, available, image, clipped,
                   remapped_image, layers, areas_list, stats_data, df_agg,
                   results, df>>

\* lines 139-165: one pass of the map loop: a year whose band is not in the
\* image is reported and skipped, any other year gets its layer
GlobeMapYear ==
    /\ app = "globe" /\ pc = "map"
    /\ idx <= Len(selected_years)
    /\ LET year == selected_years[idx]
       IN  \E present \in BandNamesOutcomes(year) :
             IF ~present
             THEN /\ failing' = failing \cup {year}
                  /\ messages' = messages \cup {<<"warning", "year", year>>}
                  /\ UNCHANGED <<available, layers>>
             ELSE /\ available' = available \cup {year}
                  /\ layers' = Append(layers,
                                      [year |-> year, clipped |-> geometry.defined,
                                       min |-> VisMin("globe"),
                                       max |-> VisMax("globe")])
                  /\ UNCHANGED <<failing, messages>>
    /\ idx' = idx + 1
    /\ UNCHANGED <<scheme_vars, water_vars, app, pc, selected_years, pixel_area, geometry, image, clipped,
                   remapped_image, areas_list, stats_data, df_agg, results, df>>

\* lines 167-175: the map is shown; the area section runs with at least one
\* selected year, with or without a geometry
GlobeShowMap ==
    /\ app = "globe" /\ pc = "map"
    /\ idx > Len(selected_years)
    /\ pc' = IF Len(selected_years) > 0 THEN "areas" ELSE "done"
    /\ idx' = 1
    /\ UNCHANGED <<scheme_vars, water_vars, app, selected_years, pixel_area, geometry, messages, failing, available,
                   image, clipped, remapped_image, layers, areas_list,
                   stats_data, df_agg, results, df>>

\* lines 177-200: one pass of the area loop, which has no try/except: a
\* getInfo() that raises ends process_data, and what the loop computed so
\* far (remapped, stats, results) is lost with its frame
GlobeAreaYear ==
    /\ app = "globe" /\ pc = "areas"
    /\ idx <= Len(selected_years)
    /\ LET year == selected_years[idx]
       IN  \E got \in FetchOutcomes(year) :
             IF got = NoBand
             THEN /\ pc' = "aborted"
                  /\ results' = <<>>
                  /\ remapped_image' = EmptyMap
                  /\ areas_list' = EmptyMap
                  /\ failing' = failing \cup {year}
                  /\ messages' = messages \cup {<<"exception", "year", year>>}
                  /\ UNCHANGED <<image, idx>>
             ELSE LET band == GlobeBand(got, geometry)
                      sums == GlobeAreas(band, pixel_area, geometry)
                  IN  /\ image' = (year :> got) @@ image
                      /\ remapped_image' = (year :> band) @@ remapped_image
                      /\ areas_list' = (year :> sums) @@ areas_list
                      /\ results' = results \o GlobeRows(year, sums)
                      /\ idx' = idx + 1
                      /\ UNCHANGED <<pc, failing, messages>>
    /\ UNCHANGED <<scheme_vars, water_vars, app, selected_years, pixel_area, geometry, available,
                   clipped, layers, stats_data, df_agg, df>>

\* lines 202-209: the collected rows are shown as a table
GlobeShow ==
    /\ app = "globe" /\ pc = "areas"
    /\ idx > Len(selected_years)
    /\ df' = results
    /\ pc' = "done"
    /\ UNCHANGED <<scheme_vars, water_vars, app, idx, selected_years, pixel_area, geometry, messages,
                   failing, available, image, clipped, remapped_image, layers, areas_list,
                   stats_data, df_agg, results>>

---------------------------------------------------------------------------
Next ==
    \/ NovoGeometry
    \/ NovoClip
    \/ NovoAddLayer
    \/ NovoShowMap
    \/ NovoStatsYear
    \/ NovoAggregate
    \/ GlobeGeometry
    \/ GlobeMapYear
    \/ GlobeShowMap
    \/ GlobeAreaYear
    \/ GlobeShow

Spec == Init /\ [][Next]_vars

\* Reclassification of a single pixel: one selected year whose band is one
\* pixel of any raw code up to MaxRawCode; the scripts run as above.
InitReclassify ==
    /\ SchemeIdle
    /\ WaterIdle
    /\ app \in {"novo", "globe"}
    /\ selected_years = <<2020>>
    /\ pixel_area \in [1..1 -> PixelAreas]
    /\ image \in {(2020 :> <<c>>) : c \in 0..MaxRawCode}
    /\ StartState

SpecReclassify == InitReclassify /\ [][Next]_vars

---------------------------------------------------------------------------
(* novo.py: reclassify_bands as a function of its arguments *)

\* the years of the loop of reclassify_bands, a sample of range(1985, 2024)
SchemeYears == {2020, 2021}
\* the values drawn for the codes and classes of a scheme, and for a pixel
SchemeValues == {1, 2}
PixelValues == {1, 2, 3}

\* lists of at most MaxSchemeLen values
SchemeLists ==
    UNION {[1..n -> SchemeValues] : n \in 0..MaxSchemeLen}

\* A call reclassify_bands(image, codes, new_classes) with any two lists:
\* codes without a repeated value, new_classes of any length.
InitScheme ==
    /\ DashboardIdle
    /\ WaterIdle
    /\ codes \in {c \in SchemeLists :
                     \A j, k \in 1..Len(c) : j # k => c[j] # c[k]}
    /\ new_classes \in SchemeLists
    /\ raw_image \in [SchemeYears -> [1..1 -> PixelValues]]
    /\ remapped_bands = <<>>
    /\ reclassified = EmptyMap
    /\ reclassified_again = EmptyMap
    /\ scheme_pc = "call"
    /\ scheme_errors = {}

\* the years of range(1985, 2024) in the order of the loop
RECURSIVE YearsInOrder(_)
YearsInOrder(S) ==
    IF S = {} THEN <<>>
    ELSE LET y == CHOOSE m \in S : \A o \in S : m <= o
         IN  <<y>> \o YearsInOrder(S \ {y})

\* lines 101-108: the loop appends, for every year, the band
\* image.select(original_band).remap(codes, new_classes).rename(original_band)
\* and the bands are concatenated.  Nothing is looked at: the lists are
\* handed to remap as they are and the image is computed on request.
ReclassifyBands ==
    /\ scheme_pc = "call"
    /\ remapped_bands' =
          [j \in 1..Cardinality(DOMAIN raw_image) |->
             [band |-> YearsInOrder(DOMAIN raw_image)[j],
              from |-> codes, to |-> new_classes]]
    /\ scheme_pc' = "returned"
    /\ UNCHANGED <<codes, new_classes, raw_image, reclassified,
                   reclassified_again, scheme_errors>>
    /\ UNCHANGED <<app, pc, idx, selected_years, pixel_area, geometry, messages,
                   failing, available, image, clipped, remapped_image, layers,
                   areas_list, stats_data, df_agg, results, df, water_vars>>

\* The returned image is evaluated (getInfo, or the tiles of a layer).
\* Earth Engine rejects a remap whose lists differ in length when it
\* computes the band; otherwise every band is remapped.
EvaluateReclassified ==
    /\ scheme_pc = "returned"
    /\ IF Len(codes) # Len(new_classes)
       THEN /\ scheme_errors' = scheme_errors \cup {<<"EEException", "remap">>}
            /\ scheme_pc' = "failed"
            /\ UNCHANGED reclassified
       ELSE /\ reclassified' =
                  [y \in DOMAIN raw_image |->
                     RemapBand(codes, new_classes, raw_image[y])]
            /\ scheme_pc' = "evaluated"
            /\ UNCHANGED scheme_errors
    /\ UNCHANGED <<codes, new_classes, raw_image, remapped_bands,
                   reclassified_again>>
    /\ UNCHANGED <<app, pc, idx, selected_years, pixel_area, geometry, messages,
                   failing, available, image, clipped, remapped_image, layers,
                   areas_list, stats_data, df_agg, results, df, water_vars>>

\* reclassify_bands(remapped_image, codes, new_classes), evaluated: the
\* function applied to the image it returned
ReclassifyAgain ==
    /\ scheme_pc = "evaluated"
    /\ reclassified_again' =
          [y \in DOMAIN reclassified |->
             RemapBand(codes, new_classes, reclassified[y])]
    /\ scheme_pc' = "again"
    /\ UNCHANGED <<codes, new_classes, raw_image, remapped_bands, reclassified,
                   scheme_errors>>
    /\ UNCHANGED <<app, pc, idx, selected_years, pixel_area, geometry, messages,
                   failing, available, image, clipped, remapped_image, layers,
                   areas_list, stats_data, df_agg, results, df, water_vars>>

NextScheme ==
    \/ ReclassifyBands
    \/ EvaluateReclassified
    \/ ReclassifyAgain

SpecScheme == InitScheme /\ [][NextScheme]_vars

---------------------------------------------------------------------------
(* rio.py: the water dashboard *)

(* The numbers of the trend and of the statistics are numpy floats.  They  *)
(* are held here as exact fractions num/den in lowest terms with den >= 0; *)
(* den = 0 stands for what a float division by zero gives: inf or -inf     *)
(* when num is 1 or -1, nan when num is 0.  The rounding of the floats to  *)
(* 53 bits is left out.                                                    *)

RECURSIVE GCD(_, _)
GCD(a, b) == IF b = 0 THEN a ELSE GCD(b, a % b)

Sign(n) == IF n > 0 THEN 1 ELSE IF n < 0 THEN 0 - 1 ELSE 0

Frac(n, d) ==
    IF d = 0 THEN [num |-> Sign(n), den |-> 0]
    ELSE LET g == GCD(n * Sign(n), d * Sign(d))
         IN  [num |-> Sign(d) * (n \div g), den |-> (d * Sign(d)) \div g]

Whole(n) == Frac(n, 1)
NaN == Frac(0, 0)
IsFinite(a) == a.den # 0

Neg(a) == [num |-> 0 - a.num, den |-> a.den]
Add(a, b) ==
    IF a.den = 0 /\ b.den = 0
    THEN (IF a.num = b.num THEN a ELSE NaN)
    ELSE Frac(a.num * b.den + b.num * a.den, a.den * b.den)
Sub(a, b) == Add(a, Neg(b))
Mul(a, b) == Frac(a.num * b.num, a.den * b.den)
Inv(a) == Frac(a.den, a.num)
\* a / b: a division by zero gives inf or nan (with a RuntimeWarning), it
\* does not raise
Div(a, b) == Mul(a, Inv(b))

\* the sum of a sequence of integers (Series.sum)
RECURSIVE SumOf(_)
SumOf(q) == IF q = <<>> THEN 0 ELSE Head(q) + SumOf(Tail(q))

\* the sum of a sequence of fractions
RECURSIVE SumFracs(_)
SumFracs(q) == IF q = <<>> THEN Whole(0) ELSE Add(Head(q), SumFracs(Tail(q)))

\* the years drawn for the series: range(1985, 1985 + n)
FirstYear == 1985
\* the values drawn for a metric of a year
WaterValues == {0, 1, 3}

\* a series of n years whose columns are the given sequences
WaterFrame(n, area, pct) ==
    [j \in 1..n |-> [Ano |-> FirstYear + (j - 1),
                     Area |-> area[j], Pct |-> pct[j]]]

\* the exactly linear series: Area = a * (Ano - 1985) + b, of up to
\* LinearPoints years, with a constant percentage
LinearPoints == 6
LinearFrames ==
    {f \in {WaterFrame(n, [j \in 1..n |-> a * (j - 1) + b],
                          [j \in 1..n |-> b]) :
               n \in 2..LinearPoints, a \in {0 - 1, 0, 2}, b \in {1, 5}} :
        \A j \in 1..Len(f) : f[j].Area >= 0}

Unset == [set |-> FALSE]

\* lines 64-102: the series of the years from 1985 on and the sidebar
InitWater ==
    /\ DashboardIdle
    /\ SchemeIdle
    /\ \/ \E n \in 1..MaxPoints :
             \E area \in [1..n -> WaterValues], pct \in [1..n -> WaterValues] :
                df_water = WaterFrame(n, area, pct)
       \/ df_water \in LinearFrames
    /\ analysis_type \in {"Area Absoluta", "Porcentagem da Bacia"}
    /\ show_trend \in BOOLEAN
    /\ show_stats \in BOOLEAN
    /\ water_pc = "trend"
    /\ fit = Unset
    /\ regress = Unset
    /\ describe = Unset

\* line 140 and df_water[y_metric]
Metric(row) == IF analysis_type = "Area Absoluta" THEN row.Area ELSE row.Pct
WaterY == [j \in 1..Len(df_water) |-> Metric(df_water[j])]

\* x that keeps the raw year
WaterXRaw(ano) == ano

\* line 158: the years counted from 1985
WaterX(ano) == ano - 1985

\* slope that leaves n out of the denominator
ClosedFormSlopeNoN(n, sum_x, sum_y, sum_xy, sum_x2) ==
    Div(Whole(n * sum_xy - sum_x * sum_y), Whole(sum_x2 - sum_x * sum_x))

\* line 167
ClosedFormSlope(n, sum_x, sum_y, sum_xy, sum_x2) ==
    Div(Whole(n * sum_xy - sum_x * sum_y), Whole(n * sum_x2 - sum_x * sum_x))

\* line 168
ClosedFormIntercept(n, sum_x, sum_y, slope) ==
    Div(Sub(Whole(sum_y), Mul(slope, Whole(sum_x))), Whole(n))

\* lines 158-171 and 187: the sums, slope, intercept, the trend values and
\* the total change trend.iloc[-1] - trend.iloc[0]
ClosedFormFit(frame, y) ==
    LET x == [j \in 1..Len(frame) |-> WaterX(frame[j].Ano)]
        n == Len(x)
        sum_x == SumOf(x)
        sum_y == SumOf(y)
        sum_xy == SumOf([j \in 1..n |-> x[j] * y[j]])
        sum_x2 == SumOf([j \in 1..n |-> x[j] * x[j]])
        slope == ClosedFormSlope(n, sum_x, sum_y, sum_xy, sum_x2)
        intercept == ClosedFormIntercept(n, sum_x, sum_y, slope)
        trend == [j \in 1..n |-> Add(intercept, Mul(slope, Whole(x[j])))]
    IN  [set |-> TRUE, slope |-> slope, intercept |-> intercept,
         trend |-> trend, total |-> Sub(trend[n], trend[1])]

\* lines 156-188: the trend section
WaterTrend ==
    /\ water_pc = "trend"
    /\ fit' = IF show_trend THEN ClosedFormFit(df_water, WaterY) ELSE fit
    /\ water_pc' = "stats"
    /\ UNCHANGED <<df_water, analysis_type, show_trend, show_stats, regress,
                   describe>>
    /\ UNCHANGED <<app, pc, idx, selected_years, pixel_area, geometry, messages,
                   failing, available, image, clipped, remapped_image, layers,
                   areas_list, stats_data, df_agg, results, df, scheme_vars>>

\* stats.linregress(x, y) raises ValueError when the inputs are empty or
\* when more than one x is given and all are the same
LinregressRaises(x) ==
    \/ Len(x) = 0
    \/ Len(x) > 1 /\ \A j \in 1..Len(x) : x[j] = x[1]

\* stats.linregress(x, y): the slope is the covariance of x and y over the
\* variance of x, both about the means; r is 0 when x or y has no variance.
\* Of the result the slope and r**2 are kept (the p-value and the standard
\* error are only written).
Linregress(x, y) ==
    LET n == Len(x)
        xmean == Div(Whole(SumOf(x)), Whole(n))
        ymean == Div(Whole(SumOf(y)), Whole(n))
        ssxm == Div(SumFracs([j \in 1..n |->
                       Mul(Sub(Whole(x[j]), xmean), Sub(Whole(x[j]), xmean))]),
                    Whole(n))
        ssxym == Div(SumFracs([j \in 1..n |->
                        Mul(Sub(Whole(x[j]), xmean), Sub(Whole(y[j]), ymean))]),
                     Whole(n))
        ssym == Div(SumFracs([j \in 1..n |->
                       Mul(Sub(Whole(y[j]), ymean), Sub(Whole(y[j]), ymean))]),
                    Whole(n))
        slope == Div(ssxym, ssxm)
    IN  [set |-> TRUE, slope |-> slope,
         intercept |-> Sub(ymean, Mul(slope, xmean)),
         rsq |-> IF ssxm = Whole(0) \/ ssym = Whole(0) THEN Whole(0)
                 ELSE Div(Mul(ssxym, ssxym), Mul(ssxm, ssym))]

\* y.max() and y.min()
MaxOf(y) == CHOOSE m \in SeqRange(y) : \A v \in SeqRange(y) : v <= m
MinOf(y) == CHOOSE m \in SeqRange(y) : \A v \in SeqRange(y) : m <= v

\* lines 264-266: the mean and the total variation
\* (y.max() - y.min()) / y.min() * 100; the standard deviation is only
\* written
Describe(y) ==
    [set |-> TRUE,
     mean |-> Div(Whole(SumOf(y)), Whole(Len(y))),
     percent_change |->
        Mul(Div(Whole(MaxOf(y) - MinOf(y)), Whole(MinOf(y))), Whole(100))]

\* lines 247-266: the statistics section, over the raw years
WaterStats ==
    /\ water_pc = "stats"
    /\ LET x == [j \in 1..Len(df_water) |-> df_water[j].Ano]
       IN  IF ~show_stats
           THEN /\ water_pc' = "done"
                /\ UNCHANGED <<regress, describe>>
           ELSE IF LinregressRaises(x)
           THEN /\ water_pc' = "raised"
                /\ UNCHANGED <<regress, describe>>
           ELSE /\ regress' = Linregress(x, WaterY)
                /\ describe' = Describe(WaterY)
                /\ water_pc' = "done"
    /\ UNCHANGED <<df_water, analysis_type, show_trend, show_stats, fit>>
    /\ UNCHANGED <<app, pc, idx, selected_years, pixel_area, geometry, messages,
                   failing, available, image, clipped, remapped_image, layers,
                   areas_list, stats_data, df_agg, results, df, scheme_vars>>

NextWater ==
    \/ WaterTrend
    \/ WaterStats

SpecWater == InitWater /\ [][NextWater]_vars

---------------------------------------------------------------------------
(* What the claims speak of *)

\* the years whose areas were computed, and the pixels the computation of a
\* year ran over
Evaluated == DOMAIN areas_list
RegionPixels == IF geometry.defined THEN geometry.inside ELSE Pixels

\* the rows collected so far, and the table handed to the presentation
CollectedRows == IF app = "novo" THEN stats_data ELSE results
TableShown ==
    \/ app = "novo" /\ pc = "done" /\ stats_data # <<>>
    \/ app = "globe" /\ pc = "done" /\ selected_years # <<>>
TableRows ==
    IF app = "novo" THEN df_agg ELSE {df[j] : j \in 1..Len(df)}

Apps == {"novo", "globe"}

\* the raw codes a scheme lists, as written in the source
ListedCodesOf ==
    [a \in Apps |->
       IF a = "novo"
       THEN {CLASS_CONFIG.codes[k] : k \in 1..Len(CLASS_CONFIG.codes)}
       ELSE UNION {SeqRange(CLASS_MAPPING_groups[g][2]) :
                     g \in 1..Len(CLASS_MAPPING_groups)}]
ListedCodes(a) == ListedCodesOf[a]

\* the classes configured for a raw code: the classes at the positions of
\* the code in the parallel lists, the classes of the groups that hold it
ConfiguredClassesOf ==
    [a \in Apps |->
       [code \in 0..(MaxRawCode + 1) |->
          IF a = "novo"
          THEN {CLASS_CONFIG.new_classes[k] :
                  k \in {h \in 1..Len(CLASS_CONFIG.codes) :
                           h <= Len(CLASS_CONFIG.new_classes)
                           /\ CLASS_CONFIG.codes[h] = code}}
          ELSE {CLASS_MAPPING_groups[g][1] :
                  g \in {h \in 1..Len(CLASS_MAPPING_groups) :
                           code \in SeqRange(CLASS_MAPPING_groups[h][2])}}]]
ConfiguredClasses(a, code) == ConfiguredClassesOf[a][code]

\* the class indices of a scheme
SchemeClassIndicesOf ==
    [a \in Apps |-> UNION {ConfiguredClasses(a, c) : c \in ListedCodes(a)}]
SchemeClassIndices(a) == SchemeClassIndicesOf[a]

RECURSIVE AreaOfFirst(_, _)
\* ground area in m2 of the pixels of S among the first n pixels
AreaOfFirst(S, n) ==
    IF n = 0 THEN 0
    ELSE (IF n \in S THEN pixel_area[n] ELSE 0) + AreaOfFirst(S, n - 1)

\* ground area in m2 of a set of pixels
AreaOfPixels(S) == AreaOfFirst(S, Len(pixel_area))

RECURSIVE SumSeq(_)
SumSeq(s) == IF s = <<>> THEN 0 ELSE Head(s) + SumSeq(Tail(s))

\* the in-region pixels of year y whose raw code is configured as class c
PixelsOfClass(y, c) ==
    {p \in RegionPixels : c \in ConfiguredClasses(app, image[y][p])}

\* the class index a collected row stands for
RowClass(r) ==
    IF app = "novo" THEN r.Classe
    ELSE CHOOSE c \in DOMAIN CLASSES : CLASSES[c] = r.Classe

RowsOfYear(y) ==
    {j \in 1..Len(CollectedRows) : CollectedRows[j].Ano = y}

Abs(n) == IF n < 0 THEN 0 - n ELSE n

---------------------------------------------------------------------------
(* C1: area conservation *)

\* C1 as stated: for every year whose areas were computed, the per-class
\* sums add up to the ground area of all the pixels inside the region,
\* whatever their raw codes.  The region is a set of pixels here, so the
\* pixel-resolution tolerance of the boundary is zero.
C1_AllPixelsConserved ==
    \A y \in Evaluated :
       SumSeq(areas_list[y]) = AreaOfPixels(RegionPixels)

\* C1 amended: the per-class sums add up to the ground area of the
\* in-region pixels whose raw code the scheme lists; a pixel of an unlisted
\* code is masked by remap and counted in no class.  The areas of the rows
\* of the year, each rounded to 0.01 km2, add up to that area within half a
\* hundredth of a km2 per row.
C1_ListedPixelsConserved ==
    \A y \in Evaluated :
       LET listed == {p \in RegionPixels : image[y][p] \in ListedCodes(app)}
           rowsum == SumSeq([j \in 1..Len(CollectedRows) |->
                               IF CollectedRows[j].Ano = y
                               THEN CollectedRows[j].Area_km2 ELSE 0])
       IN  /\ SumSeq(areas_list[y]) = AreaOfPixels(listed)
           /\ Abs(rowsum * 10000 - AreaOfPixels(listed))
                 <= 5000 * Cardinality(RowsOfYear(y))

\* a year was evaluated over a region that holds a pixel of a listed code,
\* a pixel of an unlisted code, and its sums are not all zero
C1_Witness ==
    \E y \in Evaluated :
       /\ \E p \in RegionPixels : image[y][p] \in ListedCodes(app)
       /\ \E p \in RegionPixels : image[y][p] \notin ListedCodes(app)
       /\ SumSeq(areas_list[y]) > 0
       /\ RowsOfYear(y) # {}

---------------------------------------------------------------------------
(* C2: a failed year does not abort the batch *)

BatchEnded == pc \in {"done", "stopped", "aborted"}
BatchRan ==
    /\ selected_years # <<>>
    /\ app = "novo" => geometry.defined

\* C2 as stated: when a batch has ended, every requested year that failed
\* is reported and has no area row, and every other requested year has its
\* area rows in the table of the batch.
C2_BatchIsolation ==
    (BatchEnded /\ BatchRan) =>
       \A j \in 1..Len(selected_years) :
          LET y == selected_years[j]
          IN  IF y \in failing
              THEN /\ \E m \in messages : m[3] = y
                   /\ \A r \in TableRows : r.Ano # y
              ELSE \E r \in TableRows : r.Ano = y

---------------------------------------------------------------------------
(* C4: the area of a class *)

\* C4 as stated: the area of a row, in km2, is the ground area in m2 of the
\* in-region pixels of the row's class divided by 1e6.
C4_AreaIsExactQuotient ==
    \A j \in 1..Len(CollectedRows) :
       LET r == CollectedRows[j]
       IN  r.Area_km2 * 10000 = AreaOfPixels(PixelsOfClass(r.Ano, RowClass(r)))

\* C4 amended: the area of a row is that quotient rounded to two decimals
\* (the nearest hundredth of a km2); in the 10 x 10 scenario with the
\* region covering the band, class 1 gets 0.09 km2 and every other class 0.
C4_AreaIsRoundedQuotient ==
    /\ \A j \in 1..Len(CollectedRows) :
          LET r == CollectedRows[j]
              m2 == AreaOfPixels(PixelsOfClass(r.Ano, RowClass(r)))
          IN  /\ Abs(r.Area_km2 * 10000 - m2) <= 5000
              /\ m2 % 10000 # 5000 => Abs(r.Area_km2 * 10000 - m2) < 5000
    /\ (pixel_area = ScenarioGrid /\ RegionPixels = Pixels) =>
          \A j \in 1..Len(CollectedRows) :
             LET r == CollectedRows[j]
             IN  (image[r.Ano] = ScenarioBand) =>
                    r.Area_km2 = (IF RowClass(r) = 1 THEN 9 ELSE 0)

\* the scenario was computed: a row of class 1 with 0.09 km2, and the rows
\* of all the other classes of the loop beside it
C4_Witness ==
    /\ pixel_area = ScenarioGrid
    /\ geometry = Geom(Pixels)
    /\ \E j \in 1..Len(CollectedRows) :
          /\ RowClass(CollectedRows[j]) = 1
          /\ CollectedRows[j].Area_km2 = 9
          /\ image[CollectedRows[j].Ano] = ScenarioBand
    /\ Len(CollectedRows) >= Cardinality(LoopClasses(app))

---------------------------------------------------------------------------
(* C5: the rows of the output table *)

\* C5 as stated: the table holds, for every requested year that succeeded,
\* exactly one row per class index of the scheme, and no other row.
C5_OneRowPerClassIndex ==
    TableShown =>
       /\ \A y \in Evaluated :
             Cardinality({r \in TableRows : r.Ano = y})
                = Cardinality(SchemeClassIndices(app))
       /\ \A r \in TableRows : r.Ano \in Evaluated

\* the display names of the class indices of a scheme
SchemeClassNamesOf ==
    [a \in Apps |-> {ClassName(a, c) : c \in SchemeClassIndices(a)}]
SchemeClassNames(a) == SchemeClassNamesOf[a]
TableName(r) == IF app = "novo" THEN r.Nome_da_Classe ELSE r.Classe

\* C5 amended: the table holds, for every requested year that succeeded,
\* exactly one row per display name of the scheme's class indices, and no
\* other row; class indices that share a name (0 and 6 in novo.py) share
\* the row, whose area is the sum of their rounded areas.
C5_OneRowPerClassName ==
    TableShown =>
       /\ \A y \in Evaluated :
             \A n \in SchemeClassNames(app) :
                /\ Cardinality({r \in TableRows :
                                  r.Ano = y /\ TableName(r) = n}) = 1
                /\ \A r \in TableRows :
                      (r.Ano = y /\ TableName(r) = n) =>
                         r.Area_km2 =
                            SumSeq([j \in 1..Len(CollectedRows) |->
                                      IF /\ CollectedRows[j].Ano = y
                                         /\ ClassName(app, RowClass(CollectedRows[j])) = n
                                      THEN CollectedRows[j].Area_km2 ELSE 0])
       /\ \A r \in TableRows :
             /\ r.Ano \in Evaluated
             /\ r.Ano \in SeqRange(selected_years)
             /\ TableName(r) \in SchemeClassNames(app)

\* the table of novo.py was produced for two years, one of which failed,
\* with a merged row of classes 0 and 6 that is not empty
C5_Witness ==
    /\ TableShown /\ app = "novo"
    /\ failing # {}
    /\ \E r \in TableRows :
          r.Nome_da_Classe = ClassName("novo", 6) /\ r.Area_km2 > 0

---------------------------------------------------------------------------
(* C3: listed codes get their configured class *)

\* C3: in every evaluated band, a pixel inside the region whose raw code the
\* scheme lists is remapped to the class configured for that code (the
\* class at the code's position in new_classes, the class of the code's
\* group in CLASS_MAPPING); raw codes 1, 3, 4, 5, 6 and 49 become class 1 in
\* both dashboards.
C3_ListedCodeGetsItsClass ==
    \A y \in DOMAIN remapped_image :
       \A p \in RegionPixels :
          LET c == image[y][p]
          IN  /\ c \in ListedCodes(app) =>
                    ConfiguredClasses(app, c) = {remapped_image[y][p]}
              /\ c \in {1, 3, 4, 5, 6, 49} => remapped_image[y][p] = 1

\* a pixel of raw code 49 inside the region was remapped to class 1
C3_Witness ==
    \E y \in DOMAIN remapped_image :
       \E p \in RegionPixels :
          image[y][p] = 49 /\ remapped_image[y][p] = 1

---------------------------------------------------------------------------
(* C6: the codes of a scheme *)

NoDuplicates(s) == \A j, k \in 1..Len(s) : j # k => s[j] # s[k]

\* C6: the scheme the running script remaps with lists no raw code twice,
\* has as many new classes as codes, and gives every listed code exactly
\* one class; in CLASS_MAPPING no code is written in two groups.
C6_SchemeCodesWellFormed ==
    /\ NoDuplicates(SchemeCodes(app))
    /\ Len(SchemeCodes(app)) = Len(SchemeClasses(app))
    /\ \A c \in ListedCodes(app) : Cardinality(ConfiguredClasses(app, c)) = 1
    /\ app = "globe" =>
          \A g, h \in 1..Len(CLASS_MAPPING_groups) :
             /\ NoDuplicates(CLASS_MAPPING_groups[g][2])
             /\ g # h => SeqRange(CLASS_MAPPING_groups[g][2])
                           \cap SeqRange(CLASS_MAPPING_groups[h][2]) = {}

\* novo.py remapped a band with its scheme
C6_Witness ==
    /\ app = "novo"
    /\ \E y \in DOMAIN remapped_image :
          \E p \in Pixels : remapped_image[y][p] # Masked

---------------------------------------------------------------------------
(* C7: names and palette cover the classes *)

HasName(a, c) ==
    IF a = "novo" THEN c \in DOMAIN CLASS_CONFIG.names ELSE c \in DOMAIN CLASSES

\* C7 as stated: every class index of the scheme of a rendered layer has a
\* display name, and the palette, indexed by class index from 0, has an
\* entry at that index.
C7_PaletteIndexedFromZero ==
    layers # <<>> =>
       \A c \in SchemeClassIndices(app) :
          /\ HasName(app, c)
          /\ c + 1 <= Len(VisPalette(app))

\* C7 amended: every class index of the scheme of a rendered layer has a
\* display name and lies between the layer's min and max, and the palette,
\* indexed by class index minus the layer's min (0 in novo.py, 1 in
\* mapbiomas_globe.py), has an entry at that index.
C7_PaletteIndexedFromMin ==
    \A j \in 1..Len(layers) :
       \A c \in SchemeClassIndices(app) :
          /\ HasName(app, c)
          /\ layers[j].min <= c /\ c <= layers[j].max
          /\ (c - layers[j].min) + 1 <= Len(VisPalette(app))

\* the national dashboard rendered a layer, and its last class takes the
\* last entry of the palette
C7_Witness ==
    /\ app = "globe"
    /\ layers # <<>>
    /\ \E c \in SchemeClassIndices(app) :
          (c - layers[1].min) + 1 = Len(VisPalette(app))

---------------------------------------------------------------------------
(* C8: unlisted codes *)

\* C8 as stated: a pixel inside the region whose raw code the scheme does
\* not list gets what one of the three policies gives: with the year not
\* rejected, a sentinel class index or the raw code itself.
C8_UnlistedFollowsAPolicy ==
    \A y \in DOMAIN remapped_image :
       \A p \in RegionPixels :
          image[y][p] \notin ListedCodes(app) =>
             remapped_image[y][p] \in 0..MaxRawCode

\* C8 amended: in both dashboards a pixel whose raw code the scheme does
\* not list is masked by remap, which is called without a default value:
\* it has no class, the year is not rejected, and the pixel adds to the
\* area of no class.  No policy is configured.
C8_UnlistedIsMasked ==
    \A y \in DOMAIN remapped_image :
       /\ \A p \in RegionPixels :
             image[y][p] \notin ListedCodes(app) =>
                remapped_image[y][p] = Masked
       /\ (\A p \in RegionPixels : image[y][p] \notin ListedCodes(app)) =>
             /\ y \in Evaluated /\ y \notin failing
             /\ \A k \in 1..Len(areas_list[y]) : areas_list[y][k] = 0

\* the national dashboard evaluated a band whose in-region pixel has raw
\* code 0, which CLASS_MAPPING does not list
C8_Witness ==
    /\ app = "globe"
    /\ \E y \in DOMAIN remapped_image :
          \E p \in RegionPixels :
             image[y][p] = 0 /\ remapped_image[y][p] = Masked

---------------------------------------------------------------------------
(* C9: an invalid region stops the request *)

\* C9 as stated: once the region turned out invalid or missing, no
\* classification layer is rendered or clipped and no area is computed or
\* reported.
C9_InvalidRegionStops ==
    (pc # "geometry" /\ ~geometry.defined) =>
       /\ layers = <<>>
       /\ Evaluated = {}
       /\ CollectedRows = <<>>
       /\ TableRows = {}

---------------------------------------------------------------------------
(* C10: a region without pixels *)

---------------------------------------------------------------------------
(* C11: a scheme whose codes and classes do not match *)

\* the lists of the call differ in length; the first code left without a
\* class, when there is one
SchemeMismatch == Len(codes) # Len(new_classes)
FirstCodeWithoutClass == codes[Len(new_classes) + 1]

\* C11: once reclassify_bands was called with lists that do not match, a
\* configuration error was reported that names the first code without a
\* class, and no band was remapped, built or evaluated.
C11_MismatchIsConfigError ==
    (SchemeMismatch /\ scheme_pc # "call") =>
       /\ \E e \in scheme_errors :
             /\ e[1] = "ConfigError"
             /\ Len(new_classes) < Len(codes) => e[2] = FirstCodeWithoutClass
       /\ remapped_bands = <<>>
       /\ reclassified = EmptyMap

---------------------------------------------------------------------------
(* C15: reclassifying twice under an identity scheme *)

\* C15: when every code of the scheme maps to itself, the image that
\* reclassify_bands gives for its own result is, band by band and pixel by
\* pixel, the result itself.
C15_IdempotentUnderIdentity ==
    (scheme_pc = "again" /\ codes = new_classes) =>
       /\ DOMAIN reclassified_again = DOMAIN raw_image
       /\ \A y \in DOMAIN raw_image :
             \A p \in 1..Len(raw_image[y]) :
                reclassified_again[y][p] = reclassified[y][p]

\* an identity scheme of two codes was applied twice to an image with a
\* pixel of each code and a pixel of a code the scheme does not list
C15_Witness ==
    /\ scheme_pc = "again"
    /\ codes = new_classes
    /\ Len(codes) = 2
    /\ \E y, z \in DOMAIN raw_image :
          /\ reclassified[y][1] = codes[1]
          /\ reclassified_again[y][1] = codes[1]
          /\ raw_image[z][1] \notin SeqRange(codes)
          /\ reclassified_again[z][1] = Masked

---------------------------------------------------------------------------
(* C17: the schemes of the two dashboards *)

OtherApp(a) == IF a = "novo" THEN "globe" ELSE "novo"

\* C17: a pixel inside the region whose raw code both schemes list is
\* remapped by the running dashboard to the class index the other
\* dashboard configures for that code.
C17_SchemesAgree ==
    \A y \in DOMAIN remapped_image :
       \A p \in RegionPixels :
          image[y][p] \in ListedCodes("novo") \cap ListedCodes("globe") =>
             remapped_image[y][p] \in
                ConfiguredClasses(OtherApp(app), image[y][p])

---------------------------------------------------------------------------
(* C16: the years of a request do not affect each other *)

\* C16: when a batch has ended, whatever the order of the requested years
\* and whatever happened to the other years, every requested year whose
\* own band could be read has exactly one row per class index of the loop,
\* and the area of the row is the (rounded) ground area of the in-region
\* pixels of that class in the year's own band.
C16_YearsIndependent ==
    (BatchEnded /\ BatchRan) =>
       \A j \in 1..Len(selected_years) :
          LET y == selected_years[j]
          IN  y \notin failing =>
                 /\ y \in DOMAIN image
                 /\ Cardinality(RowsOfYear(y)) = Cardinality(LoopClasses(app))
                 /\ \A c \in LoopClasses(app) :
                       \E k \in RowsOfYear(y) :
                          /\ RowClass(CollectedRows[k]) = c
                          /\ Abs(CollectedRows[k].Area_km2 * 10000
                                 - AreaOfPixels(PixelsOfClass(y, c))) <= 5000

---------------------------------------------------------------------------
(* The series of the water dashboard as the claims speak of it *)

\* the years since the first year of the series, and the sums over them
SeriesN == Len(df_water)
SeriesX == [j \in 1..SeriesN |-> df_water[j].Ano - df_water[1].Ano]
SeriesSx == SumSeq(SeriesX)
SeriesSy == SumSeq(WaterY)
SeriesSxy == SumSeq([j \in 1..SeriesN |-> SeriesX[j] * WaterY[j]])
SeriesSx2 == SumSeq([j \in 1..SeriesN |-> SeriesX[j] * SeriesX[j]])
SeriesDenominator == SeriesN * SeriesSx2 - SeriesSx * SeriesSx
SeriesNumerator == SeriesN * SeriesSxy - SeriesSx * SeriesSy

\* fewer than two points, or all years the same
Degenerate ==
    \/ SeriesN < 2
    \/ \A j \in 1..SeriesN : df_water[j].Ano = df_water[1].Ano

\* the sections of the script that have run
TrendSectionRan == show_trend /\ water_pc # "trend"
StatsSectionRan == show_stats /\ water_pc \notin {"trend", "stats"}

\* the series is value = a * (year - first year) + b
LinearWith(a, b) ==
    \A j \in 1..SeriesN : WaterY[j] = a * SeriesX[j] + b

---------------------------------------------------------------------------
(* C12: the closed form and exactly linear data *)

\* C12: for a series of at least two distinct years, the slope written by
\* the trend section is (n Sxy - Sx Sy) / (n Sx2 - Sx Sx) and the intercept
\* is (Sy - slope Sx) / n, over x = years since the first year; when the
\* values are a * x + b the slope is a, the intercept is b, every trend
\* value is the value of its year and, for a # 0, the R2 of the statistics
\* section is 1; for 1985..1990 and 2 x + 1 the slope is 2 and the
\* intercept 1.
C12_ClosedFormRecoversLinear ==
    (TrendSectionRan /\ ~Degenerate) =>
       /\ IsFinite(fit.slope) /\ IsFinite(fit.intercept)
       /\ fit.slope.num * SeriesDenominator = fit.slope.den * SeriesNumerator
       /\ fit.intercept.num * SeriesN * fit.slope.den
             = fit.intercept.den
                 * (SeriesSy * fit.slope.den - fit.slope.num * SeriesSx)
       /\ LET a == WaterY[2] - WaterY[1]
              b == WaterY[1]
          IN  LinearWith(a, b) =>
                 /\ fit.slope = [num |-> a, den |-> 1]
                 /\ fit.intercept = [num |-> b, den |-> 1]
                 /\ \A j \in 1..SeriesN :
                       fit.trend[j] = [num |-> WaterY[j], den |-> 1]
                 /\ (StatsSectionRan /\ a # 0) =>
                       regress.rsq = [num |-> 1, den |-> 1]
       /\ (SeriesN = 6 /\ LinearWith(2, 1)) =>
             /\ fit.slope = [num |-> 2, den |-> 1]
             /\ fit.intercept = [num |-> 1, den |-> 1]

\* the series of 1985..1990 with value 2 (year - 1985) + 1 went through
\* both sections
C12_Witness ==
    /\ water_pc = "done" /\ show_trend /\ show_stats
    /\ SeriesN = 6
    /\ df_water[1].Ano = 1985 /\ df_water[6].Ano = 1990
    /\ LinearWith(2, 1)
    /\ fit.slope = [num |-> 2, den |-> 1]
    /\ fit.trend[6] = [num |-> 11, den |-> 1]
    /\ regress.rsq = [num |-> 1, den |-> 1]

---------------------------------------------------------------------------
(* C13: a degenerate series *)

---------------------------------------------------------------------------
(* C14: the percent change of a series whose minimum is 0 *)

---------------------------------------------------------------------------
(* C18: the two slopes of the water dashboard *)

\* C18: for a series of at least two distinct years, the slope of the
\* closed form over year - 1985 (trend section) is a number and is the
\* slope stats.linregress gives over the raw years (statistics section).
C18_SlopesAgree ==
    (TrendSectionRan /\ StatsSectionRan /\ ~Degenerate) =>
       /\ water_pc = "done"
       /\ IsFinite(fit.slope)
       /\ fit.slope = regress.slope

\* both sections ran on a series of three years that is not linear and
\* whose slope is not a whole number
C18_Witness ==
    /\ water_pc = "done" /\ show_trend /\ show_stats
    /\ SeriesN = 3
    /\ ~LinearWith(WaterY[2] - WaterY[1], WaterY[1])
    /\ fit.slope.den > 1
    /\ fit.slope = regress.slope

---------------------------------------------------------------------------
(* C19: the total change of the trend *)

====
